---------------------------- MODULE Spec2Model ----------------------------
(***************************************************************************)
(* A model of fapy/server.py: the URL builder (build_url), the HTTP-date   *)
(* codec (httpdate_to_datetime, datetime_to_httpdate, httpdate_addsec) and *)
(* the request dispatcher (send_http_request).                             *)
(*                                                                         *)
(* Python strings are sequences of one-character strings, so that          *)
(* indexing, concatenation, parsing and formatting are computed character  *)
(* by character.  Python values of mixed type (dictionary values) are      *)
(* tagged records, see PyStr, PyInt, PyBool, PyNone.  Dictionary keys and  *)
(* exception names are plain TLA+ strings.                                 *)
(***************************************************************************)
EXTENDS Integers, Sequences, FiniteSets, TLC

VARIABLES
    fn,    \* the function called, "none" before the call
    args,  \* its arguments
    ret,   \* what it returned or raised
    pc,    \* "idle", "urlopen" (blocked in the transport), "returned", "raised"
    sent,  \* the requests handed to urllib.request.urlopen, in order
    resp,  \* what urlopen answered
    data   \* the local dictionary data of send_http_request

vars == <<fn, args, ret, pc, sent, resp, data>>

---------------------------------------------------------------------------
(* Python values *)

PyStr(s)  == [t |-> "str",  s |-> s,    n |-> 0, b |-> FALSE]
PyInt(n)  == [t |-> "int",  s |-> << >>, n |-> n, b |-> FALSE]
PyBool(b) == [t |-> "bool", s |-> << >>, n |-> 0, b |-> b]
PyNone    == [t |-> "none", s |-> << >>, n |-> 0, b |-> FALSE]

\* The outcome of a call: a returned value or a raised exception.
Return(v) == [ok |-> TRUE,  val |-> v,      exc |-> ""]
Raise(e)  == [ok |-> FALSE, val |-> PyNone, exc |-> e]

DIGITS == <<"0", "1", "2", "3", "4", "5", "6", "7", "8", "9">>

\* str(n) for a non-negative integer n: its decimal digits.
RECURSIVE DecStr(_)
DecStr(n) == IF n < 10 THEN <<DIGITS[n + 1]>>
             ELSE DecStr(n \div 10) \o <<DIGITS[(n % 10) + 1]>>

\* str(value).lower() for a bool value.
BoolLower(b) == IF b THEN <<"t", "r", "u", "e">> ELSE <<"f", "a", "l", "s", "e">>

---------------------------------------------------------------------------
(* build_url *)

\* The attributes of the session that hold the endpoints and the version:
\* build_url only concatenates them, so the values stand for any strings.
STAGING_URL       == <<"h", "t", "t", "p", "s", ":", "/", "/", "s", "t", "g">>
PRODUCTION_URL    == <<"h", "t", "t", "p", "s", ":", "/", "/", "a", "p", "i">>
FIRST_API_VERSION == <<"v", "2", ".", "0">>

\* Lines 45-56: domain name, version, season and command.
PathPrefixNoStatus(session, command) ==
    LET base == IF session.source = "staging" THEN session.STAGING_URL
                ELSE session.PRODUCTION_URL
        url  == base \o <<"/">> \o session.FIRST_API_VERSION
    IN  IF command = <<"s", "e", "a", "s", "o", "n">>
        THEN url \o <<"/">> \o DecStr(session.season)
        ELSE url \o <<"/">> \o DecStr(session.season) \o <<"/">> \o command

PathPrefix(session, command) ==
    LET base == IF session.source = "staging" THEN session.STAGING_URL
                ELSE session.PRODUCTION_URL
        url  == base \o <<"/">> \o session.FIRST_API_VERSION
    IN  IF command = <<"s", "e", "a", "s", "o", "n">>
        THEN url \o <<"/">> \o DecStr(session.season)
        ELSE IF command = <<"s", "t", "a", "t", "u", "s">>
        THEN url
        ELSE url \o <<"/">> \o DecStr(session.season) \o <<"/">> \o command

\* str + value: concatenating a non-str to a str raises TypeError.
Concat(url, value) ==
    IF value.t = "str" THEN Return(url \o value.s) ELSE Raise("TypeError")

\* Lines 62-71 with first_arg also cleared by a path-marker entry.
AddArgStrict(st, arg_name, value) ==
    IF ~st.ok \/ value.t = "none" THEN st
    ELSE IF arg_name[1] = "/"
    THEN IF ~st.first_arg
         THEN [st EXCEPT !.ok = FALSE, !.exc = "AssertionError"]
         ELSE LET r == Concat(st.url \o <<"/">>, value)
              IN  IF r.ok THEN [st EXCEPT !.url = r.val, !.first_arg = FALSE]
                  ELSE [st EXCEPT !.ok = FALSE, !.exc = r.exc]
    ELSE LET sep == IF st.first_arg THEN <<"?">> ELSE <<"&">>
             v   == IF value.t = "bool" THEN PyStr(BoolLower(value.b))
                    ELSE value
             r   == Concat(st.url \o sep \o arg_name \o <<"=">>, v)
         IN  IF r.ok THEN [st EXCEPT !.url = r.val, !.first_arg = FALSE]
             ELSE [st EXCEPT !.ok = FALSE, !.exc = r.exc]

\* Lines 62-71: the body of the loop over http_args.items().  st holds the
\* locals url and first_arg, and the exception raised so far, if any.
AddArg(st, arg_name, value) ==
    IF ~st.ok \/ value.t = "none" THEN st
    ELSE IF arg_name[1] = "/"
    THEN IF ~st.first_arg
         THEN [st EXCEPT !.ok = FALSE, !.exc = "AssertionError"]
         ELSE LET r == Concat(st.url \o <<"/">>, value)
              IN  IF r.ok THEN [st EXCEPT !.url = r.val]
                  ELSE [st EXCEPT !.ok = FALSE, !.exc = r.exc]
    ELSE LET sep == IF st.first_arg THEN <<"?">> ELSE <<"&">>
             v   == IF value.t = "bool" THEN PyStr(BoolLower(value.b))
                    ELSE value
             r   == Concat(st.url \o sep \o arg_name \o <<"=">>, v)
         IN  IF r.ok THEN [st EXCEPT !.url = r.val, !.first_arg = FALSE]
             ELSE [st EXCEPT !.ok = FALSE, !.exc = r.exc]

\* Lines 61-71: the loop, over the items in insertion order.
RECURSIVE AddArgs(_, _, _)
AddArgs(st, items, i) ==
    IF i > Len(items) THEN st
    ELSE AddArgs(AddArg(st, items[i].name, items[i].value), items, i + 1)

\* http_args is either None (has = FALSE) or a dictionary, given as the
\* sequence of its items in insertion order.
build_url(session, command, http_args) ==
    LET st0 == [ok |-> TRUE, exc |-> "", url |-> PathPrefix(session, command),
                first_arg |-> TRUE]
        st  == IF http_args.has THEN AddArgs(st0, http_args.items, 1) ELSE st0
    IN  IF st.ok THEN Return(PyStr(st.url)) ELSE Raise(st.exc)

---------------------------------------------------------------------------
(* The HTTP-date codec *)

UPPER ==
    <<"A", "B", "C", "D", "E", "F", "G", "H", "I", "J", "K", "L", "M",
    "N", "O", "P", "Q", "R", "S", "T", "U", "V", "W", "X", "Y", "Z">>
LOWER ==
    <<"a", "b", "c", "d", "e", "f", "g", "h", "i", "j", "k", "l", "m",
    "n", "o", "p", "q", "r", "s", "t", "u", "v", "w", "x", "y", "z">>

\* str.lower() on one character and on a string (the directives of
\* strptime match with re.IGNORECASE).
LowerChar(c) == IF \E i \in 1..26 : UPPER[i] = c
                THEN LOWER[CHOOSE i \in 1..26 : UPPER[i] = c] ELSE c
Lower(s) == [i \in 1..Len(s) |-> LowerChar(s[i])]

\* The abbreviated names of the C locale: %a (Monday first, as
\* date.weekday() counts) and %b.
WEEKDAYS ==
    <<<<"M", "o", "n">>, <<"T", "u", "e">>, <<"W", "e", "d">>, <<"T", "h",
    "u">>, <<"F", "r", "i">>, <<"S", "a", "t">>, <<"S", "u", "n">>>>
MONTHS   ==
    <<<<"J", "a", "n">>, <<"F", "e", "b">>, <<"M", "a", "r">>, <<"A", "p",
    "r">>, <<"M", "a", "y">>, <<"J", "u", "n">>, <<"J", "u", "l">>, <<"A",
    "u", "g">>, <<"S", "e", "p">>, <<"O", "c", "t">>, <<"N", "o", "v">>,
    <<"D", "e", "c">>>>

\* The zone names %Z accepts besides those of the local time zone.
ZONES == {<<"u", "t", "c">>, <<"g", "m", "t">>}

MINYEAR == 1
MAXYEAR == 9999

\* The index in names of the name that tok is, whatever its case; 0 if none.
NameIndex(names, tok) ==
    IF \E i \in 1..Len(names) : Lower(names[i]) = Lower(tok)
    THEN CHOOSE i \in 1..Len(names) : Lower(names[i]) = Lower(tok)
    ELSE 0

IsDigit(c) == \E i \in 1..10 : DIGITS[i] = c
DigitVal(c) == (CHOOSE i \in 1..10 : DIGITS[i] = c) - 1
IsDigits(tok) == \A i \in 1..Len(tok) : IsDigit(tok[i])

\* int(tok) for a string of digits.
RECURSIVE NumVal(_)
NumVal(tok) == IF Len(tok) = 0 THEN 0
               ELSE 10 * NumVal(SubSeq(tok, 1, Len(tok) - 1))
                    + DigitVal(tok[Len(tok)])

\* s.split(sep): the pieces of s between the occurrences of sep.
RECURSIVE SplitFrom(_, _, _, _)
SplitFrom(s, sep, i, cur) ==
    IF i > Len(s) THEN <<cur>>
    ELSE IF s[i] = sep THEN <<cur>> \o SplitFrom(s, sep, i + 1, << >>)
    ELSE SplitFrom(s, sep, i + 1, Append(cur, s[i]))
Split(s, sep) == SplitFrom(s, sep, 1, << >>)

NonEmpty(toks) == SelectSeq(toks, LAMBDA t : Len(t) > 0)

IsLeap(year) == year % 4 = 0 /\ (year % 100 # 0 \/ year % 400 = 0)
DaysInMonth(year, month) ==
    IF month = 2 THEN (IF IsLeap(year) THEN 29 ELSE 28)
    ELSE IF month \in {4, 6, 9, 11} THEN 30 ELSE 31

RECURSIVE DaysBeforeMonth(_, _)
DaysBeforeMonth(year, month) ==
    IF month = 1 THEN 0
    ELSE DaysBeforeMonth(year, month - 1) + DaysInMonth(year, month - 1)

\* date.toordinal(): 1 for 1 Jan of year 1.
Ordinal(d) ==
    LET y == d.year - 1
    IN  y * 365 + (y \div 4) - (y \div 100) + (y \div 400)
        + DaysBeforeMonth(d.year, d.month) + d.day

\* date.weekday(): 0 for Monday.
Weekday(d) == (Ordinal(d) + 6) % 7

\* What httpdate_to_datetime returns for an invalid date: False.
PyFalse == [isdate |-> FALSE, year |-> 0, month |-> 0, day |-> 0, hour |-> 0,
            minute |-> 0, second |-> 0, tz |-> ""]

Datetime(y, mo, d, h, mi, s, tz) ==
    [isdate |-> TRUE, year |-> y, month |-> mo, day |-> d, hour |-> h,
     minute |-> mi, second |-> s, tz |-> tz]

\* A field of one or two digits with a value of at most max (the regular
\* expressions of %d, %H, %M and %S).
IsField(tok, min, max) ==
    /\ Len(tok) \in {1, 2} /\ IsDigits(tok)
    /\ NumVal(tok) >= min /\ NumVal(tok) <= max

\* datetime.datetime.strptime(http_date, "%a, %d %b %Y %H:%M:%S %Z"), or
\* without " %Z" when zone is FALSE: the naive datetime, or PyFalse where
\* strptime raises ValueError.  White space in the format matches a run of
\* white space; the weekday and the zone name are matched and dropped.
strptime(http_date, zone) ==
    LET raw  == Split(http_date, " ")
        toks == NonEmpty(raw)
        hms  == Split(toks[5], ":")
    IN  IF \/ Len(http_date) = 0 \/ Len(raw[1]) = 0 \/ Len(raw[Len(raw)]) = 0
           \/ Len(toks) # (IF zone THEN 6 ELSE 5)
        THEN PyFalse
        ELSE IF \/ Len(toks[1]) # 4 \/ toks[1][4] # ","
                \/ NameIndex(WEEKDAYS, SubSeq(toks[1], 1, 3)) = 0
                \/ ~IsField(toks[2], 1, 31)
                \/ NameIndex(MONTHS, toks[3]) = 0
                \/ Len(toks[4]) # 4 \/ ~IsDigits(toks[4])
                \/ Len(hms) # 3
                \/ (zone /\ Lower(toks[6]) \notin ZONES)
        THEN PyFalse
        ELSE IF \/ ~IsField(hms[1], 0, 23) \/ ~IsField(hms[2], 0, 59)
                \/ ~IsField(hms[3], 0, 61)
        THEN PyFalse
        ELSE LET year  == NumVal(toks[4])
                 month == NameIndex(MONTHS, toks[3])
                 day   == NumVal(toks[2])
             IN  IF \/ year < MINYEAR \/ day > DaysInMonth(year, month)
                    \/ NumVal(hms[3]) > 59
                 THEN PyFalse
                 ELSE Datetime(year, month, day, NumVal(hms[1]),
                               NumVal(hms[2]), NumVal(hms[3]), "")

\* Lines 92-111.  The warning of line 105 is not an exception.
httpdate_to_datetime(http_date, gmt) ==
    LET dtm == strptime(http_date, gmt)
    IN  IF ~dtm.isdate THEN PyFalse
        ELSE IF gmt THEN [dtm EXCEPT !.tz = "GMT"] ELSE dtm

Pad2(n) == IF n < 10 THEN <<"0">> \o DecStr(n) ELSE DecStr(n)

\* datetime.datetime.strftime(date_time, fmt_string) for the two format
\* strings of lines 128 and 130; %Z is the name of the tzinfo, empty for a
\* naive datetime.
strftime(date_time, zone) ==
    WEEKDAYS[Weekday(date_time) + 1] \o <<",", " ">> \o Pad2(date_time.day)
    \o <<" ">> \o MONTHS[date_time.month] \o <<" ">> \o DecStr(date_time.year)
    \o <<" ">> \o Pad2(date_time.hour) \o <<":">> \o Pad2(date_time.minute)
    \o <<":">> \o Pad2(date_time.second)
    \o (IF zone THEN <<" ">> \o (IF date_time.tz = "GMT" THEN <<"G", "M", "T">>
                                 ELSE << >>)
        ELSE << >>)

\* Lines 125-131.
datetime_to_httpdate(date_time, gmt) ==
    IF gmt THEN strftime([date_time EXCEPT !.tz = "GMT"], TRUE)
    ELSE strftime(date_time, FALSE)

\* dtm + timedelta(seconds=1) that does not carry into the next day.
AddSecondSameDay(dtm) ==
    IF dtm.second < 59 THEN Return([dtm EXCEPT !.second = dtm.second + 1])
    ELSE IF dtm.minute < 59
    THEN Return([dtm EXCEPT !.second = 0, !.minute = dtm.minute + 1])
    ELSE Return([dtm EXCEPT !.second = 0, !.minute = 0,
                            !.hour = (dtm.hour + 1) % 24])

\* Line 151: dtm + datetime.timedelta(seconds=1); OverflowError past the
\* last second of MAXYEAR.
AddSecond(dtm) ==
    IF dtm.second < 59 THEN Return([dtm EXCEPT !.second = dtm.second + 1])
    ELSE IF dtm.minute < 59
    THEN Return([dtm EXCEPT !.second = 0, !.minute = dtm.minute + 1])
    ELSE IF dtm.hour < 23
    THEN Return([dtm EXCEPT !.second = 0, !.minute = 0, !.hour = dtm.hour + 1])
    ELSE LET midnight == [dtm EXCEPT !.second = 0, !.minute = 0, !.hour = 0]
         IN  IF dtm.day < DaysInMonth(dtm.year, dtm.month)
             THEN Return([midnight EXCEPT !.day = dtm.day + 1])
             ELSE IF dtm.month < 12
             THEN Return([midnight EXCEPT !.day = 1, !.month = dtm.month + 1])
             ELSE IF dtm.year < MAXYEAR
             THEN Return([midnight EXCEPT !.day = 1, !.month = 1,
                                          !.year = dtm.year + 1])
             ELSE [ok |-> FALSE, val |-> PyFalse, exc |-> "OverflowError"]

\* Lines 149-155.
httpdate_addsec(http_date, gmt) ==
    LET dtm == httpdate_to_datetime(http_date, gmt)
    IN  IF dtm.isdate
        THEN LET dtm_new == AddSecond(dtm)
             IN  IF dtm_new.ok
                 THEN Return(PyStr(datetime_to_httpdate(dtm_new.val, gmt)))
                 ELSE Raise(dtm_new.exc)
        ELSE Raise("ValueError")

---------------------------------------------------------------------------
(* send_http_request *)

\* The base64 alphabet.
B64 ==
    <<"A", "B", "C", "D", "E", "F", "G", "H", "I", "J", "K", "L", "M",
    "N", "O", "P", "Q", "R", "S", "T", "U", "V", "W", "X", "Y", "Z", "a",
    "b", "c", "d", "e", "f", "g", "h", "i", "j", "k", "l", "m", "n", "o",
    "p", "q", "r", "s", "t", "u", "v", "w", "x", "y", "z", "0", "1", "2",
    "3", "4", "5", "6", "7", "8", "9", "+", "/">>

\* str.encode(): the byte of a character, for the letters, the digits and
\* the colon.
Ord(c) ==
    CASE IsDigit(c) -> 48 + DigitVal(c)
      [] c = ":" -> 58
      [] \E i \in 1..26 : UPPER[i] = c -> 64 + (CHOOSE i \in 1..26 : UPPER[i] = c)
      [] \E i \in 1..26 : LOWER[i] = c -> 96 + (CHOOSE i \in 1..26 : LOWER[i] = c)
Encode(s) == [i \in 1..Len(s) |-> Ord(s[i])]

\* base64.b64encode(bytes).decode(): three bytes give four characters, a
\* last group of one or two bytes is padded with "=".
RECURSIVE b64encode(_)
b64encode(bytes) ==
    IF Len(bytes) = 0 THEN << >>
    ELSE IF Len(bytes) = 1
    THEN LET n == bytes[1] * 16
         IN  <<B64[(n \div 64) + 1], B64[(n % 64) + 1], "=", "=">>
    ELSE IF Len(bytes) = 2
    THEN LET n == (bytes[1] * 256 + bytes[2]) * 4
         IN  <<B64[(n \div 4096) + 1], B64[((n \div 64) % 64) + 1],
               B64[(n % 64) + 1], "=">>
    ELSE LET n == bytes[1] * 65536 + bytes[2] * 256 + bytes[3]
         IN  <<B64[(n \div 262144) + 1], B64[((n \div 4096) % 64) + 1],
               B64[((n \div 64) % 64) + 1], B64[(n % 64) + 1]>>
             \o b64encode(SubSeq(bytes, 4, Len(bytes)))

\* d[key] = value on a dictionary d (a function from keys to values).
SetItem(d, key, value) ==
    [k \in (DOMAIN d) \cup {key} |-> IF k = key THEN value ELSE d[k]]

EmptyDict == [k \in {} |-> PyNone]

\* Line 198 with the check made only for two dates that parse.
BothGivenAndValid(mod_since, only_mod_since) ==
    /\ mod_since.t # "none" /\ only_mod_since.t # "none"
    /\ httpdate_to_datetime(mod_since.s, TRUE).isdate
    /\ httpdate_to_datetime(only_mod_since.s, TRUE).isdate

\* Line 198: the condition under which ArgumentError is raised.
BothGiven(mod_since, only_mod_since) ==
    mod_since.t # "none" /\ only_mod_since.t # "none"

\* Lines 203-204.
AuthToken(session) ==
    <<"B", "a", "s", "i", "c", " ">>
    \o b64encode(Encode(session.username \o <<":">> \o session.key))

\* Lines 207-212: the Accept header.
FormatHeader(session) ==
    IF session.data_format = "xml"
    THEN <<"a", "p", "p", "l", "i", "c", "a", "t", "i", "o", "n", "/", "x", "m", "l">>
    ELSE <<"a", "p", "p", "l", "i", "c", "a", "t", "i", "o", "n", "/",
           "s", "c", "h", "e", "d", "u", "l", "e", ".", "j", "s", "o", "n">>

\* Lines 209 and 212: data["text_format"].
TextFormat(session) ==
    IF session.data_format = "xml" THEN PyStr(<<"x", "m", "l">>)
    ELSE PyStr(<<"j", "s", "o", "n">>)

\* Lines 215-218 with a date attached whether it parses or not.
AddDateHeaderUnchecked(hdrs, name, date) ==
    IF date.t # "none" THEN SetItem(hdrs, name, date.s) ELSE hdrs

\* Lines 215-218: a conditional header is attached when its date is given
\* and httpdate_to_datetime returns a datetime (which is true) for it.
AddDateHeader(hdrs, name, date) ==
    IF date.t # "none" /\ httpdate_to_datetime(date.s, TRUE).isdate
    THEN SetItem(hdrs, name, date.s) ELSE hdrs

\* Lines 214-218.
Headers(session, mod_since, only_mod_since) ==
    LET hdrs == [k \in {"Accept", "Authorization"} |->
                    IF k = "Accept" THEN FormatHeader(session)
                    ELSE AuthToken(session)]
    IN  AddDateHeader(AddDateHeader(hdrs, "If-Modified-Since", mod_since),
                      "FMS-OnlyModifiedSince", only_mod_since)

\* Lines 227-228: the response headers, in order, become keys of data.
RECURSIVE MergeHeaders(_, _, _)
MergeHeaders(d, items, i) ==
    IF i > Len(items) THEN d
    ELSE MergeHeaders(SetItem(d, items[i].key, PyStr(items[i].value)),
                      items, i + 1)

\* Lines 224-228.
SuccessData(d, code, text, geturl, info) ==
    MergeHeaders(SetItem(SetItem(SetItem(d, "code", PyInt(code)),
                                 "text", PyStr(text)),
                         "url", PyStr(geturl)),
                 info, 1)

\* Line 231 taking every 3xx error for "not modified".
IsNotModifiedAny3xx(code) == code >= 300 /\ code < 400

\* Line 231.
IsNotModified(code) == code = 304

\* Lines 232-234 with an empty text in place of None.
NotModifiedDataEmptyText(d, url) ==
    SetItem(SetItem(SetItem(d, "code", PyInt(304)), "text", PyStr(<< >>)),
            "url", url)

\* Lines 232-234.
NotModifiedData(d, url) ==
    SetItem(SetItem(SetItem(d, "code", PyInt(304)), "text", PyNone),
            "url", url)

\* Lines 238-245.
Finish(d, now, cmd, mod_since, only_mod_since) ==
    LET d1 == SetItem(d, "time_downloaded",
                      PyStr(datetime_to_httpdate(now, FALSE)))
        d2 == SetItem(d1, "local_data", PyBool(FALSE))
        d3 == SetItem(d2, "local_time", PyNone)
        d4 == SetItem(d3, "requested_url", d3["url"])
        d5 == SetItem(d4, "frame_type", PyStr(cmd))
        d6 == SetItem(d5, "mod_since", mod_since)
    IN  SetItem(d6, "only_mod_since", only_mod_since)

---------------------------------------------------------------------------
(* Inputs *)

MaxArgs == 3
MaxHeaders == 2

UrlSessions ==
    [source : {"production", "staging"}, season : {2021, 7},
     username : {<<"u">>}, key : {<<"k">>}, data_format : {"json"},
     STAGING_URL : {STAGING_URL}, PRODUCTION_URL : {PRODUCTION_URL},
     FIRST_API_VERSION : {FIRST_API_VERSION}]

Commands == {<<"s", "e", "a", "s", "o", "n">>, <<"s", "t", "a", "t", "u", "s">>,
             <<"t", "e", "a", "m", "s">>}

ArgNames == {<<"/", "t">>, <<"/", "e">>, <<"p">>, <<"a">>}

ArgValues == {PyStr(<<"2", "5", "4">>), PyInt(2), PyBool(TRUE), PyNone}

\* The item sequences of the dictionaries with at most MaxArgs entries:
\* keys are distinct.
ItemSeqs ==
    UNION {{q \in [1..k -> [name : ArgNames, value : ArgValues]] :
               \A i, j \in 1..k : i # j => q[i].name # q[j].name} : k \in 0..MaxArgs}

HttpArgs == {[has |-> FALSE, items |-> << >>]}
            \cup {[has |-> TRUE, items |-> q] : q \in ItemSeqs}

\* The text "<wd>, <day> <mon> <year> <time><zone>".
Render(wd, day, mon, year, time, zone) ==
    wd \o <<",", " ">> \o day \o <<" ">> \o mon \o <<" ">> \o year \o <<" ">>
    \o time \o zone

NotADate == <<"n", "o", "t", " ", "a", " ", "d", "a", "t", "e">>

GMT == <<" ", "G", "M", "T">>
UTC == <<" ", "U", "T", "C">>

DateStrings ==
    {Render(wd, day, mon, year, time, zone) :
        wd \in {<<"F", "r", "i">>, <<"S", "a", "t">>, <<"f", "r", "i">>},
        day \in {<<"0", "1">>, <<"1">>, <<"2", "8">>, <<"2", "9">>, <<"3", "1">>},
        mon \in {<<"J", "a", "n">>, <<"F", "e", "b">>, <<"D", "e", "c">>},
        year \in {<<"2", "0", "2", "0">>, <<"2", "0", "2", "1">>,
                  <<"9", "9", "9", "9">>},
        time \in {<<"0", "0", ":", "0", "0", ":", "0", "0">>,
                  <<"0", "0", ":", "0", "0", ":", "5", "9">>,
                  <<"0", "0", ":", "5", "9", ":", "5", "9">>,
                  <<"2", "3", ":", "5", "9", ":", "5", "9">>,
                  <<"2", "3", ":", "5", "9", ":", "6", "0">>},
        zone \in {<< >>, GMT, UTC, <<" ", "E", "S", "T">>}}
    \cup {NotADate, << >>}

RequestSessions ==
    [source : {"production"}, season : {2021},
     username : {<<"u">>, <<"m", "e">>}, key : {<<"k">>},
     data_format : {"json", "xml", "dataframe"},
     STAGING_URL : {STAGING_URL}, PRODUCTION_URL : {PRODUCTION_URL},
     FIRST_API_VERSION : {FIRST_API_VERSION}]

RequestUrl    == PRODUCTION_URL \o <<"/">> \o FIRST_API_VERSION
RedirectedUrl == STAGING_URL \o <<"/">> \o FIRST_API_VERSION

SinceValues ==
    {PyNone, PyStr(NotADate),
     PyStr(Render(<<"F", "r", "i">>, <<"0", "1">>, <<"J", "a", "n">>,
                  <<"2", "0", "2", "1">>,
                  <<"0", "0", ":", "0", "0", ":", "0", "0">>, GMT)),
     PyStr(Render(<<"S", "a", "t">>, <<"1">>, <<"J", "a", "n">>,
                  <<"2", "0", "2", "1">>,
                  <<"0", "0", ":", "0", "0", ":", "0", "0">>, UTC)),
     PyStr(Render(<<"F", "r", "i">>, <<"0", "1">>, <<"J", "a", "n">>,
                  <<"2", "0", "2", "1">>,
                  <<"0", "0", ":", "0", "0", ":", "0", "0">>, << >>))}

\* What urlopen can answer.  It returns a response for a 2xx status only
\* and raises HTTPError for every other final status.
SuccessCodes == {200, 204}
ErrorCodes   == {300, 304, 404, 500}
Bodies       == {<< >>, <<"{", "}">>}

HeaderItems ==
    {[key |-> "Content-Type", value |-> <<"x">>],
     [key |-> "text", value |-> <<"t">>],
     [key |-> "code", value |-> <<"3", "0", "4">>],
     [key |-> "url", value |-> RedirectedUrl]}

HeaderLists == UNION {[1..k -> HeaderItems] : k \in 0..MaxHeaders}

\* The values of datetime.datetime.now().
NowInstants == {Datetime(2021, 12, 31, 23, 59, 59, "")}

NoResponse == [kind |-> "none", code |-> 0, text |-> << >>, geturl |-> << >>,
               info |-> << >>]

---------------------------------------------------------------------------
(* The state machine *)

Init ==
    /\ fn = "none"
    /\ args = [x |-> 0]
    /\ ret = Return(PyNone)
    /\ pc = "idle"
    /\ sent = << >>
    /\ resp = NoResponse
    /\ data = EmptyDict

\* The functions of the module write no global: a call starts from the
\* state after import, and a behaviour is one call (for the codec, a parse
\* and the formatting of its result).
Completed(r) == IF r.ok THEN "returned" ELSE "raised"

BuildUrl ==
    /\ fn = "none"
    /\ \E session \in UrlSessions, command \in Commands, http_args \in HttpArgs :
          /\ fn' = "build_url"
          /\ args' = [session |-> session, command |-> command,
                      http_args |-> http_args]
          /\ ret' = build_url(session, command, http_args)
    /\ pc' = Completed(ret')
    /\ UNCHANGED <<sent, resp, data>>

HttpdateToDatetime ==
    /\ fn = "none"
    /\ \E http_date \in DateStrings, gmt \in BOOLEAN :
          /\ fn' = "httpdate_to_datetime"
          /\ args' = [http_date |-> http_date, gmt |-> gmt]
          /\ ret' = Return(httpdate_to_datetime(http_date, gmt))
    /\ pc' = "returned"
    /\ UNCHANGED <<sent, resp, data>>

\* datetime_to_httpdate applied to the datetime a parse returned; args
\* keeps the string and the flag of that parse.
DatetimeToHttpdate ==
    /\ fn = "httpdate_to_datetime"
    /\ ret.val.isdate
    /\ \E gmt \in BOOLEAN :
          /\ fn' = "datetime_to_httpdate"
          /\ args' = [date_time |-> ret.val, gmt |-> gmt,
                      parsed_from |-> args.http_date, parsed_gmt |-> args.gmt]
          /\ ret' = Return(PyStr(datetime_to_httpdate(ret.val, gmt)))
    /\ pc' = "returned"
    /\ UNCHANGED <<sent, resp, data>>

HttpdateAddsec ==
    /\ fn = "none"
    /\ \E http_date \in DateStrings, gmt \in BOOLEAN :
          /\ fn' = "httpdate_addsec"
          /\ args' = [http_date |-> http_date, gmt |-> gmt]
          /\ ret' = httpdate_addsec(http_date, gmt)
    /\ pc' = Completed(ret')
    /\ UNCHANGED <<sent, resp, data>>

\* Lines 198-223: send_http_request up to the call of urlopen.
SendHttpRequest ==
    /\ fn = "none"
    /\ \E session \in RequestSessions, cmd \in {<<"t", "e", "a", "m", "s">>},
          mod_since \in SinceValues, only_mod_since \in SinceValues :
          /\ fn' = "send_http_request"
          /\ args' = [session |-> session, url |-> RequestUrl, cmd |-> cmd,
                      mod_since |-> mod_since,
                      only_mod_since |-> only_mod_since]
          /\ IF BothGiven(mod_since, only_mod_since)
             THEN /\ ret' = Raise("ArgumentError")
                  /\ pc' = "raised"
                  /\ UNCHANGED <<sent, data>>
             ELSE /\ data' = SetItem(EmptyDict, "text_format",
                                     TextFormat(session))
                  /\ sent' = Append(sent,
                                [url |-> RequestUrl,
                                 headers |-> Headers(session, mod_since,
                                                     only_mod_since)])
                  /\ pc' = "urlopen"
                  /\ UNCHANGED ret
    /\ UNCHANGED resp

\* Lines 223-228 and 238-246: urlopen returns a response.
UrlopenReturns ==
    /\ pc = "urlopen"
    /\ \E code \in SuccessCodes, text \in Bodies,
          geturl \in {args.url, RedirectedUrl}, info \in HeaderLists,
          now \in NowInstants :
          /\ resp' = [kind |-> "response", code |-> code, text |-> text,
                      geturl |-> geturl, info |-> info]
          /\ data' = Finish(SuccessData(data, code, text, geturl, info), now,
                            args.cmd, args.mod_since, args.only_mod_since)
    /\ ret' = Return(data')
    /\ pc' = "returned"
    /\ UNCHANGED <<fn, args, sent>>

\* Lines 229-246: urlopen raises urllib.error.HTTPError.
UrlopenRaisesHTTPError ==
    /\ pc = "urlopen"
    /\ \E code \in ErrorCodes, now \in NowInstants :
          /\ resp' = [NoResponse EXCEPT !.kind = "HTTPError", !.code = code]
          /\ IF IsNotModified(code)
             THEN /\ data' = Finish(NotModifiedData(data, PyStr(args.url)),
                                    now, args.cmd, args.mod_since,
                                    args.only_mod_since)
                  /\ ret' = Return(data')
                  /\ pc' = "returned"
             ELSE /\ ret' = Raise("HTTPError")
                  /\ pc' = "raised"
                  /\ UNCHANGED data
    /\ UNCHANGED <<fn, args, sent>>

\* urlopen raises another exception (urllib.error.URLError): no handler
\* of send_http_request catches it.
UrlopenRaisesURLError ==
    /\ pc = "urlopen"
    /\ resp' = [NoResponse EXCEPT !.kind = "URLError"]
    /\ ret' = Raise("URLError")
    /\ pc' = "raised"
    /\ UNCHANGED <<fn, args, sent, data>>

Next ==
    \/ BuildUrl
    \/ HttpdateToDatetime
    \/ DatetimeToHttpdate
    \/ HttpdateAddsec
    \/ SendHttpRequest
    \/ UrlopenReturns
    \/ UrlopenRaisesHTTPError
    \/ UrlopenRaisesURLError

Spec == Init /\ [][Next]_vars

---------------------------------------------------------------------------
(* Claims about build_url *)

IsPrefix(p, s) == Len(p) <= Len(s) /\ SubSeq(s, 1, Len(p)) = p

IsMarker(item) == item.name[1] = "/"
NotNone(item)  == item.value.t # "none"

\* The entry raises TypeError when it is processed: its value is
\* concatenated to a str and is not a str (a bool query value is converted
\* first).
TypeErrorAt(item) ==
    /\ NotNone(item)
    /\ IF IsMarker(item) THEN item.value.t # "str"
       ELSE item.value.t \notin {"str", "bool"}

BuiltWithArgs == fn = "build_url" /\ args.http_args.has

\* The text the specification gives a parameter value in a URL.
ValueText(v) == CASE v.t = "str"  -> v.s
                  [] v.t = "int"  -> DecStr(v.n)
                  [] v.t = "bool" -> BoolLower(v.b)
                  [] OTHER        -> << >>

\* The path prefix the specification gives for a session and a command.
ExpectedPrefix(session, command) ==
    (IF session.source = "staging" THEN STAGING_URL ELSE PRODUCTION_URL)
    \o <<"/">> \o FIRST_API_VERSION
    \o (IF command = <<"s", "t", "a", "t", "u", "s">> THEN << >>
        ELSE <<"/">> \o DecStr(session.season))
    \o (IF command \in {<<"s", "t", "a", "t", "u", "s">>,
                        <<"s", "e", "a", "s", "o", "n">>} THEN << >>
        ELSE <<"/">> \o command)

\* The query string of the non-marker entries items[i..], where emitted
\* tells whether a query term was already written.
RECURSIVE ExpectedQuery(_, _, _)
ExpectedQuery(items, i, emitted) ==
    IF i > Len(items) THEN << >>
    ELSE IF IsMarker(items[i]) \/ ~NotNone(items[i])
    THEN ExpectedQuery(items, i + 1, emitted)
    ELSE (IF emitted THEN <<"&">> ELSE <<"?">>) \o items[i].name \o <<"=">>
         \o ValueText(items[i].value) \o ExpectedQuery(items, i + 1, TRUE)

ExpectedUrl(session, command, items) ==
    ExpectedPrefix(session, command)
    \o (IF Len(items) > 0 /\ IsMarker(items[1]) /\ NotNone(items[1])
        THEN <<"/">> \o ValueText(items[1].value) ELSE << >>)
    \o ExpectedQuery(items, 1, FALSE)

\* C5 as stated: a path-marker entry (one that would be emitted, its value
\* not None) preceded by an entry lacking the marker, whatever that entry's
\* value, or two such path-marker entries, make build_url fail instead of
\* returning a URL.
C5_MarkerRuleAsClaimed ==
    BuiltWithArgs =>
        LET items == args.http_args.items
            IsPath(i) == IsMarker(items[i]) /\ NotNone(items[i])
        IN  (\/ \E i, j \in 1..Len(items) :
                   i < j /\ ~IsMarker(items[i]) /\ IsPath(j)
             \/ \E i, j \in 1..Len(items) : i # j /\ IsPath(i) /\ IsPath(j))
            => ~ret.ok

\* C5 amended: build_url raises AssertionError exactly when a path-marker
\* entry whose value is not None is reached after an earlier entry that
\* lacks the marker and whose value is not None; entries whose value is
\* None are skipped before the check, and any number of leading
\* path-marker entries is accepted.  (An earlier entry that raised
\* TypeError ends the call before the check.)
C5_MarkerRuleAmended ==
    BuiltWithArgs =>
        LET items == args.http_args.items IN
        (ret = Raise("AssertionError")) <=>
            \E j \in 1..Len(items) :
                /\ IsMarker(items[j]) /\ NotNone(items[j])
                /\ \E i \in 1..(j - 1) : ~IsMarker(items[i]) /\ NotNone(items[i])
                /\ \A i \in 1..(j - 1) : ~TypeErrorAt(items[i])

\* Witness of C5: the assertion fired on a mapping that also holds a
\* None-valued entry.
C5_Witness ==
    /\ BuiltWithArgs
    /\ ret = Raise("AssertionError")
    /\ \E i \in 1..Len(args.http_args.items) : ~NotNone(args.http_args.items[i])

\* C6 as stated: for a mapping with at most one path-marker entry, placed
\* first, and values that are strings, integers, booleans or None,
\* build_url returns prefix, "/<value>" of the marker entry, then the
\* non-None non-marker entries as ?k=v&k=v, an integer in decimal digits.
C6_UrlAsClaimed ==
    BuiltWithArgs =>
        LET items == args.http_args.items IN
        (\A i \in 2..Len(items) : ~IsMarker(items[i]))
        => /\ ret.ok
           /\ ret.val = PyStr(ExpectedUrl(args.session, args.command, items))

\* C10: the URL starts with <base>/<version> for "status",
\* <base>/<version>/<season> for "season" and
\* <base>/<version>/<season>/<command> otherwise, the base being the
\* staging URL exactly when session.source is "staging"; with no parameter
\* to append the URL is that prefix.
C10_PathPrefix ==
    fn = "build_url" /\ ret.ok =>
        LET prefix == ExpectedPrefix(args.session, args.command) IN
        /\ IsPrefix(prefix, ret.val.s)
        /\ (\A i \in 1..Len(args.http_args.items) :
                ~NotNone(args.http_args.items[i])) => ret.val.s = prefix

\* Witness of C10: the status command on the staging server, without
\* parameters.
C10_Witness ==
    /\ fn = "build_url" /\ ret.ok
    /\ args.command = <<"s", "t", "a", "t", "u", "s">>
    /\ args.session.source = "staging"
    /\ ~args.http_args.has
    /\ ret.val.s = STAGING_URL \o <<"/">> \o FIRST_API_VERSION

---------------------------------------------------------------------------
(* Claims about the HTTP-date codec *)

\* C7 as stated: formatting the datetime parsed from a string, with the
\* same gmt flag, gives the string back, for every string the parser
\* accepts.
C7_RoundTripAsClaimed ==
    fn = "datetime_to_httpdate" /\ args.gmt = args.parsed_gmt
        => ret.val.s = args.parsed_from

\* The second of the day of a datetime, from 0 to 86399.
SecondOfDay(d) == d.hour * 3600 + d.minute * 60 + d.second

\* b is the instant one second after a: the next second of the same day,
\* or the first second of the next day after the last one of a day.
NextInstant(a, b) ==
    \/ Ordinal(b) = Ordinal(a) /\ SecondOfDay(b) = SecondOfDay(a) + 1
    \/ /\ Ordinal(b) = Ordinal(a) + 1
       /\ SecondOfDay(a) = 86399 /\ SecondOfDay(b) = 0

\* r is the HTTP-date string of the instant one second after the one s
\* parses to: it reads as that instant, names its weekday, is written with
\* two-digit fields and, under gmt, ends in GMT.
OneSecondLater(s, r, gmt) ==
    LET a == strptime(s, gmt)
        b == strptime(r, gmt)
    IN  /\ b.isdate
        /\ NextInstant(a, b)
        /\ SubSeq(r, 1, 3) = WEEKDAYS[Weekday(b) + 1]
        /\ Len(r) = (IF gmt THEN 29 ELSE 25)
        /\ gmt => SubSeq(r, 26, 29) = GMT

LastInstant(d) ==
    /\ d.year = MAXYEAR /\ d.month = 12 /\ d.day = 31
    /\ d.hour = 23 /\ d.minute = 59 /\ d.second = 59

---------------------------------------------------------------------------
(* Claims about send_http_request *)

Requested == fn = "send_http_request"
Given(v) == v.t # "none"
Parses(v) == httpdate_to_datetime(v.s, TRUE).isdate

\* C1: a call with both mod_since and only_mod_since given raises
\* ArgumentError, never hands a request to the transport and never
\* returns an envelope, whether the two dates parse or not.
C1_BothGivenFailsBeforeIO ==
    Requested /\ Given(args.mod_since) /\ Given(args.only_mod_since) =>
        /\ sent = << >>
        /\ resp = NoResponse
        /\ pc = "raised"
        /\ ~ret.ok /\ ret.exc = "ArgumentError"

\* Witness of C1: the call failed with one date that parses and one that
\* does not.
C1_Witness ==
    /\ Requested /\ pc = "raised" /\ sent = << >>
    /\ Given(args.mod_since) /\ Given(args.only_mod_since)
    /\ Parses(args.mod_since) /\ ~Parses(args.only_mod_since)

C3_TextNoneIff304 ==
    Requested /\ pc = "returned" =>
        /\ (ret.val["text"] = PyNone) <=> (ret.val["code"] = PyInt(304))
        /\ resp.kind = "response" =>
              ret.val["text"] # PyNone /\ ret.val["code"] # PyInt(304)
        /\ resp.kind = "HTTPError" => ret.val["text"] = PyNone

\* Witness of C3: an envelope whose code and text keys were overwritten by
\* response headers of those names.
C3_Witness ==
    /\ Requested /\ pc = "returned" /\ resp.kind = "response"
    /\ \E i \in 1..Len(resp.info) : resp.info[i].key = "code"
    /\ \E i \in 1..Len(resp.info) : resp.info[i].key = "text"
    /\ ret.val["code"] = PyStr(<<"3", "0", "4">>)
    /\ ret.val["text"] = PyStr(<<"t">>)

\* C4: with exactly one of mod_since and only_mod_since given, the request
\* is sent; it carries If-Modified-Since (resp. FMS-OnlyModifiedSince) with
\* the given string exactly when that string parses, no error is raised
\* for a date that does not parse, and the envelope returned echoes both
\* arguments as given.
C4_SinceHeaders ==
    Requested /\ (Given(args.mod_since) # Given(args.only_mod_since)) =>
        /\ Len(sent) = 1
        /\ LET hdrs == sent[1].headers IN
           /\ ("If-Modified-Since" \in DOMAIN hdrs)
                 <=> (Given(args.mod_since) /\ Parses(args.mod_since))
           /\ ("If-Modified-Since" \in DOMAIN hdrs)
                 => hdrs["If-Modified-Since"] = args.mod_since.s
           /\ ("FMS-OnlyModifiedSince" \in DOMAIN hdrs)
                 <=> (Given(args.only_mod_since) /\ Parses(args.only_mod_since))
           /\ ("FMS-OnlyModifiedSince" \in DOMAIN hdrs)
                 => hdrs["FMS-OnlyModifiedSince"] = args.only_mod_since.s
        /\ pc = "raised" => ret.exc \in {"HTTPError", "URLError"}
        /\ pc = "returned" =>
              /\ ret.val["mod_since"] = args.mod_since
              /\ ret.val["only_mod_since"] = args.only_mod_since

\* Witness of C4: an envelope returned for a request whose mod_since does
\* not parse: no If-Modified-Since was sent and the string is echoed.
C4_Witness ==
    /\ Requested /\ pc = "returned"
    /\ args.mod_since = PyStr(NotADate) /\ ~Given(args.only_mod_since)
    /\ "If-Modified-Since" \notin DOMAIN sent[1].headers
    /\ ret.val["mod_since"] = PyStr(NotADate)

\* C9 as stated: every request sent carries Accept: application/xml when
\* session.data_format is xml and Accept: application/json otherwise, and
\* Authorization: Basic base64(username:key).
C9_RequestHeadersAsClaimed ==
    \A i \in 1..Len(sent) :
        /\ sent[i].headers["Accept"] =
              (IF args.session.data_format = "xml"
               THEN <<"a", "p", "p", "l", "i", "c", "a", "t", "i", "o", "n",
                      "/", "x", "m", "l">>
               ELSE <<"a", "p", "p", "l", "i", "c", "a", "t", "i", "o", "n",
                      "/", "j", "s", "o", "n">>)
        /\ sent[i].headers["Authorization"] =
              <<"B", "a", "s", "i", "c", " ">>
              \o b64encode(Encode(args.session.username \o <<":">>
                                  \o args.session.key))

===========================================================================
